---- MODULE Spec2Model ----
(***************************************************************************)
(* check-dnsbl.py: resolution of destinations to endpoints (get_addrs),    *)
(* reverse-DNS consistency (check_rdns), DNSBL queries (check_dnsbl) and   *)
(* the round-based timeout/retry loop of run().                            *)
(*                                                                         *)
(* Texts (destination tokens, addresses, DNS names) are sequences of       *)
(* one-character strings.  Every DNS query is answered by the environment  *)
(* with one of the outcomes of Outcomes, chosen anew at every query.       *)
(***************************************************************************)
EXTENDS Integers, Sequences, FiniteSets, TLC

\* ------------------------------------------------------------------ bounds
MaxDests == 2       \* destinations on the command line
MaxBls == 1         \* entries of args.bls
MaxRetries == 3     \* largest value of --retries
MaxMx == 1          \* exchange targets in one MX answer
MaxTokenLen == 2    \* length of the destination tokens of SpecResolve

MaxProductBls == 2   \* largest number of blacklists of SpecProduct
MaxOrderRetries == 2 \* largest retries of SpecOrder
MinRetries == 0 - 1 \* --retries is type=int: negative values are accepted

\* ------------------------------------------------------------------- texts
Digits == {"0", "1", "2", "3", "4", "5", "6", "7", "8", "9"}
HexLower == {"a", "b", "c", "d", "e", "f"}
HexUpper == {"A", "B", "C", "D", "E", "F"}
HexChars == Digits \cup HexLower \cup HexUpper

\* '^[C]+$' matched with re.match: one or more characters of C up to the end
\* of the text, where '$' also matches just before one final newline.
MatchClassPlus(s, C) ==
    \/ Len(s) > 0 /\ \A n \in 1..Len(s) : s[n] \in C
    \/ Len(s) > 1 /\ s[Len(s)] = "\n" /\ \A n \in 1..(Len(s) - 1) : s[n] \in C

v4_ex(s) == MatchClassPlus(s, Digits \cup {"."})
v6_exNoColon(s) == MatchClassPlus(s, HexChars)
v6_ex(s) == MatchClassPlus(s, HexChars \cup {":"})

\* str.lower(), character by character
LowerChar(c) ==
    CASE c = "A" -> "a" [] c = "B" -> "b" [] c = "C" -> "c" [] c = "D" -> "d"
      [] c = "E" -> "e" [] c = "F" -> "f" [] c = "X" -> "x" [] c = "Y" -> "y"
      [] c = "M" -> "m" [] c = "N" -> "n" [] c = "Z" -> "z" [] OTHER -> c
lower(s) == [n \in 1..Len(s) |-> LowerChar(s[n])]

None == <<>>        \* Python's None as an origin: falsy, like the empty text
str(x) == IF x = None THEN <<"N", "o", "n", "e">> ELSE x

\* text.split(sep): the pieces of s between the occurrences of the character sep
RECURSIVE SplitFrom(_, _, _, _)
SplitFrom(s, sep, n, cur) ==
    IF n > Len(s) THEN <<cur>>
    ELSE IF s[n] = sep THEN <<cur>> \o SplitFrom(s, sep, n + 1, <<>>)
    ELSE SplitFrom(s, sep, n + 1, Append(cur, s[n]))
Split(s, sep) == SplitFrom(s, sep, 1, <<>>)

\* sep.join(parts)
RECURSIVE Join(_, _)
Join(parts, sep) ==
    IF Len(parts) = 0 THEN <<>>
    ELSE IF Len(parts) = 1 THEN parts[1]
    ELSE parts[1] \o <<sep>> \o Join(Tail(parts), sep)

RECURSIVE Reverse(_)
Reverse(s) == IF Len(s) = 0 THEN <<>> ELSE Append(Reverse(Tail(s)), s[1])

RECURSIVE Flatten(_)
Flatten(ss) == IF Len(ss) = 0 THEN <<>> ELSE ss[1] \o Flatten(Tail(ss))

DigitChars == <<"0", "1", "2", "3", "4", "5", "6", "7", "8", "9">>
DigitVal(c) == CHOOSE v \in 0..9 : DigitChars[v + 1] = c

\* int(part) of a text of decimal digits
RECURSIVE IntOf(_)
IntOf(part) ==
    IF Len(part) = 0 THEN 0
    ELSE 10 * IntOf(SubSeq(part, 1, Len(part) - 1)) + DigitVal(part[Len(part)])

\* '%d' % byte
RECURSIVE DecimalOf(_)
DecimalOf(v) ==
    IF v < 10 THEN <<DigitChars[v + 1]>>
    ELSE Append(DecimalOf(v \div 10), DigitChars[(v % 10) + 1])

\* ------------------------------------------------- dns.reversename (library)
\* dns.ipv4.inet_aton: four decimal parts without leading zeros, each a byte.
Ipv4PartOk(part) ==
    /\ Len(part) > 0
    /\ \A n \in 1..Len(part) : part[n] \in Digits
    /\ ~(Len(part) > 1 /\ part[1] = "0")
    /\ Len(part) <= 3
    /\ IntOf(part) <= 255
Ipv4Ok(text) ==
    LET parts == Split(text, ".")
    IN  Len(parts) = 4 /\ \A n \in 1..4 : Ipv4PartOk(parts[n])
Ipv4Bytes(text) == [n \in 1..4 |-> IntOf(Split(text, ".")[n])]

\* dns.ipv6.inet_aton on texts without an embedded dotted quad: the text is
\* split at ':', one empty chunk stands for the run of zero groups, every other
\* chunk is at most four hex digits, left-padded with '0'.
Ipv6Trim(text) ==
    IF text = <<":", ":">> THEN <<"0", ":", ":">>
    ELSE IF Len(text) >= 2 /\ SubSeq(text, 1, 2) = <<":", ":">> THEN Tail(text)
    ELSE IF Len(text) >= 2 /\ SubSeq(text, Len(text) - 1, Len(text)) = <<":", ":">>
         THEN SubSeq(text, 1, Len(text) - 1)
    ELSE text
Ipv6Chunks(text) == Split(Ipv6Trim(text), ":")
Ipv6Ok(text) ==
    LET chunks == Ipv6Chunks(text)
        empties == {n \in 1..Len(chunks) : chunks[n] = <<>>}
    IN  /\ Len(chunks) <= 8
        /\ Cardinality(empties) <= 1
        /\ \A n \in 1..Len(chunks) :
              Len(chunks[n]) <= 4 /\ \A m \in 1..Len(chunks[n]) : chunks[n][m] \in HexChars
        /\ (Len(chunks) < 8 => empties # {})
Pad4(chunk) == [n \in 1..(4 - Len(chunk)) |-> "0"] \o lower(chunk)
Ipv6Nibbles(text) ==
    LET chunks == Ipv6Chunks(text)
        zeros == [n \in 1..(4 * (8 - Len(chunks) + 1)) |-> "0"]
    IN  Flatten([n \in 1..Len(chunks) |->
                    IF chunks[n] = <<>> THEN zeros ELSE Pad4(chunks[n])])
\* dns.ipv6.is_mapped: ::ffff:a.b.c.d
Ipv6Mapped(nib) == SubSeq(nib, 1, 24) =
    [n \in 1..24 |-> IF n <= 20 THEN "0" ELSE "f"]
HexVal(c) ==
    IF c \in Digits THEN DigitVal(c)
    ELSE CHOOSE v \in 10..15 : <<"a", "b", "c", "d", "e", "f">>[v - 9] = c

In_addr_arpa == << <<"i", "n", "-", "a", "d", "d", "r">>, <<"a", "r", "p", "a">>, <<>> >>
Ip6_arpa == << <<"i", "p", "6">>, <<"a", "r", "p", "a">>, <<>> >>

\* dns.reversename.from_address(text): the labels of the reverse name, or the
\* SyntaxError the library raises for a text that is no address.
from_address(text) ==
    IF Ipv6Ok(text) THEN
        LET nib == Ipv6Nibbles(text)
        IN  IF Ipv6Mapped(nib)
            THEN [ok |-> TRUE,
                  labels |-> Reverse([n \in 1..4 |->
                      DecimalOf(16 * HexVal(nib[23 + 2 * n]) + HexVal(nib[24 + 2 * n]))])
                      \o In_addr_arpa]
            ELSE [ok |-> TRUE,
                  labels |-> Reverse([n \in 1..32 |-> <<nib[n]>>]) \o Ip6_arpa]
    ELSE IF Ipv4Ok(text) THEN
        [ok |-> TRUE,
         labels |-> Reverse([n \in 1..4 |-> DecimalOf(Ipv4Bytes(text)[n])]) \o In_addr_arpa]
    ELSE [ok |-> FALSE, labels |-> <<>>]

\* str(rev.split(3)[0]) + '.' + bl : the DNSBL query name of (addr, zone)
QueryNameUnreversed(addr, bl) ==
    LET rev == from_address(addr).labels
    IN  Join(Reverse(SubSeq(rev, 1, Len(rev) - 3)), ".") \o <<".">> \o bl
QueryName(addr, bl) ==
    LET rev == from_address(addr).labels
    IN  Join(SubSeq(rev, 1, Len(rev) - 3), ".") \o <<".">> \o bl

\* --------------------------------------------------------------- DNS world
\* What dns.resolver.query ends with: an answer, or one of the exceptions
\* NoAnswer, NXDOMAIN, Timeout (dns.exception.Timeout), NoNameservers, or any
\* other exception of the resolver (OtherFailure).
Failures == {"NoAnswer", "NXDOMAIN", "Timeout", "NoNameservers", "OtherFailure"}
Outcomes == {"records"} \cup Failures

\* Texts of the model's DNS world.
LiteralV4 == <<"1", ".", "2", ".", "3", ".", "4">>
LiteralBad == <<"1", ".", "2">>          \* matches v4_ex, is no address
DomainXY == <<"X", ".", "y">>
AddrA == <<"5", ".", "6", ".", "7", ".", "8">>
AddrAAAA == <<":", ":", "1">>
MxNames == << <<"m", "1", ".">>, <<"m", "2", ".">>, <<"m", "3", ".">> >>
ZoneNames == << <<"z", "1">>, <<"z", "2">>, <<"z", "3">> >>

DestTokens == {LiteralV4, LiteralBad, DomainXY}
\* the exchange lists an MX answer can carry: 1..MaxMx targets
MxAnswers == {SubSeq(MxNames, 1, n) : n \in 1..MaxMx}
\* answer.address of an A / AAAA answer (one record)
AddressAnswer(t) == IF t = "a" THEN <<AddrA>> ELSE <<AddrAAAA>>
\* str(a.target) of a PTR answer
PtrTargets == {<<"x", ".", "Y", ".">>, <<"x", ".", "y">>, <<"M", "1", ".">>, <<"z", ".">>}

\* from_address over the address texts of the model's DNS world, tabulated
\* the IPv4 literals of SpecName: every dotted quad over NameOctets
NameOctets == {<<"0">>, <<"9">>, <<"1", "0">>, <<"2", "5", "5">>}
NameAddrs == {Join(<<a, b, c, e>>, ".") : a \in NameOctets, b \in NameOctets,
                                           c \in NameOctets, e \in NameOctets}
AddressTexts == {LiteralV4, LiteralBad, AddrA, AddrAAAA} \cup NameAddrs
ReverseName == [t \in AddressTexts |-> from_address(t)]
\* the query name check_dnsbl builds (line 193), tabulated likewise
QueryNames ==
    [t \in AddressTexts |-> [z \in {ZoneNames[n] : n \in 1..Len(ZoneNames)} |->
        IF ReverseName[t].ok THEN QueryName(t, z) ELSE <<>>]]

RECURSIVE SeqsUpTo(_, _)
SeqsUpTo(S, n) ==
    IF n = 0 THEN {<<>>}
    ELSE LET shorter == SeqsUpTo(S, n - 1)
         IN  shorter \cup {Append(t, c) : t \in shorter, c \in S}

\* ------------------------------------------------------------------- state
VARIABLES
    retries, rev, mx, bls, dests,   \* args (set by parse_args, read-only in run)
    pc,                             \* position of run()
    d,                              \* index of dest in args.dests
    exc, excAt,                     \* exception that left run() uncaught, and where
    domains, q, addrs,              \* get_addrs: candidate domains, loop position, result
    queries,                        \* record types get_addrs has queried for this dest
    mxAns,                          \* what the MX lookup of this dest ended with
    r, rerrs,                       \* check_rdns: loop position, its local errs
    ptrs,                           \* outcomes of the PTR lookups of this dest, in order
    targets,                        \* the targets of the PTR answers among them, in order
    errs, old_errs, ls, ms, i, k,   \* run: tally, queue of batches, round, position in ls[0]
    ret,                            \* value returned by run()
    hist,                           \* per work item of this dest: what happened to it
    warned,                         \* work items reported with log.warn for this dest
    sleeps,                         \* time.sleep arguments for this dest, in order
    last,                           \* the latest check_dnsbl call and its two lookups
    anyListed, anyMismatch,         \* some check_dnsbl returned 1 / check_rdns returned > 0
    resolved,                       \* indices of the dests whose get_addrs returned
    listedIn,                       \* indices of the dests reported by line 267
    order,                          \* an answer for every lookup of one destination, and
                                    \* an order of its endpoints and of its work items
    cmp                             \* that destination in the code's order and in that order

vars == <<retries, rev, mx, bls, dests, pc, d, exc, excAt, domains, q, addrs, queries, mxAns,
          r, rerrs, ptrs, targets, errs, old_errs, ls, ms, i, k, ret, hist, warned, sleeps, last,
          anyListed, anyMismatch, resolved, listedIn, order, cmp>>

args == <<retries, rev, mx, bls, dests>>
get_addrs_vars == <<domains, q, addrs, queries, mxAns>>
rdns_vars == <<r, rerrs, ptrs, targets>>
queue_vars == <<old_errs, ls, ms, i, k, hist, warned, sleeps, last>>

order_vars == <<order, cmp>>

NotReturned == 0 - 1    \* run() has not returned

NoMx == [out |-> "none", exch |-> <<>>]   \* no MX lookup issued

NoOrder == [ptr |-> <<>>, ans |-> <<>>, eord |-> <<>>, ord |-> <<>>]
NoCmp == <<>>

NoCall == [id |-> <<0, 0>>, name |-> <<>>, a |-> "none", txt |-> "none", result |-> "none"]

InitRun ==
    /\ pc = "get_addrs" /\ d = 1
    /\ exc = "none" /\ excAt = "none"
    /\ domains = <<>> /\ q = 0 /\ addrs = <<>> /\ queries = <<>> /\ mxAns = NoMx
    /\ r = 0 /\ rerrs = 0 /\ ptrs = <<>> /\ targets = <<>>
    /\ errs = 0 /\ old_errs = 0 /\ ls = <<>> /\ ms = <<>> /\ i = 0 /\ k = 0
    /\ ret = NotReturned
    /\ hist = <<>> /\ warned = {} /\ sleeps = <<>> /\ last = NoCall
    /\ anyListed = FALSE /\ anyMismatch = FALSE /\ resolved = {} /\ listedIn = {}

Init ==
    /\ retries \in MinRetries..MaxRetries
    /\ rev \in BOOLEAN
    /\ mx \in BOOLEAN
    /\ bls \in {SubSeq(ZoneNames, 1, n) : n \in 0..MaxBls}
    /\ dests \in SeqsUpTo(DestTokens, MaxDests) \ {<<>>}
    /\ InitRun
    /\ order = NoOrder /\ cmp = NoCmp

\* an exception leaves run() uncaught: the interpreter ends with a traceback
Raise(e, where) ==
    /\ pc' = "crashed" /\ exc' = e /\ excAt' = where

dest == dests[d]

\* -------------------------------------------------------------- get_addrs
\* lines 164-172: the candidate domains after an MX lookup that ended with o
\* (an answer carrying the exchanges exch), or without a lookup (o = "none")
CandidatesKeepDest(dst, o, exch) == IF o = "records" THEN <<dst>> \o exch ELSE <<dst>>
Candidates(dst, o, exch) == IF o = "records" THEN exch ELSE <<dst>>

\* get_addrs up to the loop over the domains: the literal test and the MX lookup
GetAddrsBegin ==
    /\ pc = "get_addrs"
    /\ UNCHANGED <<args, order_vars, d, rdns_vars, errs, ret, queue_vars, anyListed, anyMismatch,
                   listedIn>>
    /\ IF v4_ex(dest) \/ v6_ex(dest)
       THEN /\ addrs' = << [addr |-> dest, domain |-> None] >>
            /\ domains' = <<>> /\ q' = 0 /\ queries' = <<>> /\ mxAns' = NoMx
            /\ pc' = IF rev THEN "check_rdns" ELSE "queue"
            /\ resolved' = resolved \cup {d}
            /\ UNCHANGED <<exc, excAt>>
       ELSE /\ addrs' = <<>> /\ q' = 1
            /\ UNCHANGED resolved
            /\ IF mx
               THEN /\ queries' = <<"mx">>
                    /\ \E o \in Outcomes :
                        CASE o = "records" ->
                               /\ \E exch \in MxAnswers :
                                     /\ domains' = Candidates(dest, o, exch)
                                     /\ mxAns' = [out |-> o, exch |-> exch]
                               /\ pc' = "lookup" /\ UNCHANGED <<exc, excAt>>
                          [] o = "NoAnswer" ->
                               /\ domains' = Candidates(dest, o, <<>>)
                               /\ mxAns' = [out |-> o, exch |-> <<>>]
                               /\ pc' = "lookup" /\ UNCHANGED <<exc, excAt>>
                          [] OTHER ->
                               /\ domains' = <<dest>>
                               /\ mxAns' = [out |-> o, exch |-> <<>>]
                               /\ Raise(o, "get_addrs")
               ELSE /\ queries' = <<>>
                    /\ domains' = Candidates(dest, "none", <<>>)
                    /\ mxAns' = NoMx
                    /\ pc' = "lookup" /\ UNCHANGED <<exc, excAt>>

\* one pass of the inner loop "for t in ['a', 'aaaa']" for domains[(q+1) div 2],
\* and, after the last pass, the test "if not addrs"
GetAddrsLookup ==
    /\ pc = "lookup"
    /\ UNCHANGED <<args, order_vars, d, domains, mxAns, rdns_vars, errs, ret, queue_vars, anyListed,
                   anyMismatch, listedIn>>
    /\ LET domain == domains[(q + 1) \div 2]
           t == IF q % 2 = 1 THEN "a" ELSE "aaaa"
           final == q = 2 * Len(domains)
       IN  /\ queries' = Append(queries, t)
           /\ q' = q + 1
           /\ \E o \in Outcomes :
               LET xs == IF o = "records"
                         THEN [n \in 1..Len(AddressAnswer(t)) |->
                                  [addr |-> AddressAnswer(t)[n], domain |-> domain]]
                         ELSE <<>>
               IN  IF o \in {"records", "NoAnswer"}
                   THEN /\ addrs' = addrs \o xs
                        /\ IF ~final
                           THEN pc' = "lookup" /\ UNCHANGED <<exc, excAt, resolved>>
                           ELSE IF addrs' = <<>>
                           THEN Raise("ValueError", "get_addrs") /\ UNCHANGED resolved
                           ELSE /\ pc' = IF rev THEN "check_rdns" ELSE "queue"
                                /\ resolved' = resolved \cup {d}
                                /\ UNCHANGED <<exc, excAt>>
                   ELSE /\ addrs' = addrs
                        /\ Raise(o, "get_addrs") /\ UNCHANGED resolved

\* -------------------------------------------------------------- check_rdns
\* lines 219-222: the comparison of the PTR target with the origin
PtrMismatchCaseSensitive(domain, ptrTarget) ==
    domain # None /\ str(domain) \o <<".">> # str(ptrTarget) /\ str(domain) # str(ptrTarget)
PtrMismatch(domain, ptrTarget) ==
    LET target == lower(str(ptrTarget))
        source == lower(str(domain))
    IN  domain # None /\ source \o <<".">> # target /\ source # target

\* line 227: the failures of the PTR lookup that check_rdns catches
RdnsCaughtOnlyNxdomain == {"NXDOMAIN"}
RdnsCaught == {"NXDOMAIN", "NoAnswer"}

\* lines 227-229: no reverse record for the endpoint
NoReverseRecordUncounted(n) == n
NoReverseRecord(n) == n + 1

\* one pass of the loop of check_rdns, and the return to run() (line 241)
CheckRdnsStep ==
    /\ pc = "check_rdns"
    /\ UNCHANGED <<args, order_vars, d, get_addrs_vars, ret, queue_vars, anyListed, resolved, listedIn>>
    /\ LET e == addrs[r + 1]
           final == r + 1 = Len(addrs)
       IN  IF ~ReverseName[e.addr].ok
           THEN /\ Raise("SyntaxError", "check_rdns")
                /\ UNCHANGED <<r, rerrs, ptrs, targets, errs, anyMismatch>>
           ELSE \E o \in Outcomes :
                /\ ptrs' = Append(ptrs, o)
                /\ r' = r + 1
                /\ CASE o = "records" ->
                          /\ \E target \in PtrTargets :
                                /\ targets' = Append(targets, target)
                                /\ rerrs' = IF PtrMismatch(e.domain, target)
                                            THEN rerrs + 1 ELSE rerrs
                          /\ IF final
                             THEN /\ errs' = errs + rerrs'
                                  /\ anyMismatch' = (anyMismatch \/ rerrs' > 0)
                                  /\ pc' = "queue"
                             ELSE /\ pc' = "check_rdns"
                                  /\ UNCHANGED <<errs, anyMismatch>>
                          /\ UNCHANGED <<exc, excAt>>
                     [] o \in RdnsCaught ->
                          /\ targets' = targets
                          /\ rerrs' = NoReverseRecord(rerrs)
                          /\ errs' = errs + rerrs'
                          /\ anyMismatch' = TRUE
                          /\ pc' = "queue"
                          /\ UNCHANGED <<exc, excAt>>
                     [] OTHER ->
                          /\ Raise(o, "check_rdns")
                          /\ UNCHANGED <<rerrs, targets, errs, anyMismatch>>

\* ------------------------------------------------------------- check_dnsbl
Returned(v) == [raised |-> "none", value |-> v]
Raised(e) == [raised |-> e, value |-> 0]

check_dnsblNoNameserversUncaught(domain, a, txt) ==
    IF domain = <<>> THEN Raised("SyntaxError")
    ELSE IF a \in {"NXDOMAIN", "NoAnswer"} THEN Returned(0)
    ELSE IF a # "records" THEN Raised(a)
    ELSE IF txt \in {"records", "NoAnswer", "NXDOMAIN"} THEN Returned(1)
    ELSE Raised(txt)

\* check_dnsbl(addr, bl) when lines 192-193 build the query name domain (none
\* when from_address raises), the A lookup ends with a and the TXT lookup
\* (issued only after an A answer) with txt
check_dnsbl(domain, a, txt) ==
    IF domain = <<>> THEN Raised("SyntaxError")
    ELSE IF a \in {"NXDOMAIN", "NoNameservers", "NoAnswer"} THEN Returned(0)
    ELSE IF a # "records" THEN Raised(a)
    ELSE IF txt \in {"records", "NoAnswer", "NXDOMAIN"} THEN Returned(1)
    ELSE Raised(txt)

\* --------------------------------------------------------------------- run
\* line 243: the generator over the cross product, x outer, y inner.  Each
\* item carries the query name check_dnsbl will build from its addr and bl.
WorkItemsPaired ==
    [n \in 1..(IF Len(addrs) <= Len(bls) THEN Len(addrs) ELSE Len(bls)) |->
        [addr |-> addrs[n].addr, domain |-> addrs[n].domain, bl |-> bls[n],
         name |-> QueryNames[addrs[n].addr][bls[n]], id |-> <<n, n>>]]
WorkItems ==
    [n \in 1..(Len(addrs) * Len(bls)) |->
        LET x == ((n - 1) \div Len(bls)) + 1
            y == ((n - 1) % Len(bls)) + 1
        IN  [addr |-> addrs[x].addr, domain |-> addrs[x].domain, bl |-> bls[y],
             name |-> QueryNames[addrs[x].addr][bls[y]], id |-> <<x, y>>]]
ItemIds == (1..Len(addrs)) \X (1..Len(bls))

Fresh == [att |-> 0, tmo |-> 0, add |-> 0, aok |-> FALSE, verdict |-> "none"]

\* lines 242-246: old_errs, the queue with its one batch, round 0.  The locals
\* of the finished get_addrs and check_rdns calls are dead and are cleared.
StartQueue ==
    /\ pc = "queue"
    /\ old_errs' = errs
    /\ ls' = <<WorkItems>>
    /\ i' = 0
    /\ ms' = <<>>
    /\ k' = 1
    /\ hist' = [id \in ItemIds |-> Fresh]
    /\ warned' = {} /\ sleeps' = <<>> /\ last' = NoCall
    /\ pc' = "for"
    /\ domains' = <<>> /\ q' = 0 /\ queries' = <<>> /\ mxAns' = NoMx
    /\ r' = 0 /\ rerrs' = 0 /\ ptrs' = <<>> /\ targets' = <<>>
    /\ UNCHANGED <<args, order_vars, d, exc, excAt, addrs, errs, ret,
                   anyListed, anyMismatch, resolved, listedIn>>

\* line 255
WarnFinal(round, n) == round >= n
\* line 261
RequeueAlways(timedOut, round, n) == timedOut # <<>>
RequeueOneRoundMore(timedOut, round, n) == timedOut # <<>> /\ round < n
Requeue(timedOut, round, n) == timedOut # <<>> /\ round + 1 < n
\* line 262: the batch appended for the next round
NextBatchWhole(batch, timedOut) == batch
NextBatch(batch, timedOut) == timedOut
\* line 264
BackoffFlat(round) == 23
BackoffOfNextRound(round) == 23 + (round + 1) * 23
Backoff(round) == 23 + round * 23
\* line 268
ExitStatusAboveOne(e) == IF e <= 1 THEN 0 ELSE 1
ExitStatus(e) == IF e = 0 THEN 0 ELSE 1

\* line 251: errs = errs + check_dnsbl(...); no assignment when the call raises
TallyAssigns(e, res) == IF res.raised = "none" THEN res.value ELSE e
TallyCountsTimeouts(e, res) ==
    IF res.raised = "none" THEN e + res.value
    ELSE IF res.raised = "Timeout" THEN e + 1 ELSE e
Tally(e, res) == IF res.raised = "none" THEN e + res.value ELSE e

\* lines 247-259: one work item of ls[0] through check_dnsbl.  No lookup is
\* issued when from_address rejects the address; the TXT lookup is issued
\* only after an A answer.
CheckItem ==
    /\ pc = "for" /\ k <= Len(ls[1])
    /\ UNCHANGED <<args, order_vars, d, get_addrs_vars, rdns_vars, old_errs, ls, i, ret, sleeps,
                   anyMismatch, resolved, listedIn>>
    /\ LET item == ls[1][k]
       IN  \E a \in (IF item.name # <<>> THEN Outcomes ELSE {"none"}) :
           \E txt \in (IF a = "records" THEN Outcomes ELSE {"none"}) :
             LET res == check_dnsbl(item.name, a, txt)
                 h == hist[item.id]
                 verdict == IF res.raised = "Timeout" THEN "timed-out"
                            ELSE IF res.raised # "none" THEN "raised"
                            ELSE IF res.value = 1 THEN "listed" ELSE "not-listed"
             IN  /\ last' = [id |-> item.id, name |-> item.name,
                              a |-> a, txt |-> txt, result |-> verdict]
                 /\ errs' = Tally(errs, res)
                 /\ hist' = [hist EXCEPT ![item.id] =
                        [att |-> h.att + 1,
                         tmo |-> h.tmo + (IF res.raised = "Timeout" THEN 1 ELSE 0),
                         add |-> h.add + (errs' - errs),
                         aok |-> (h.aok \/ a = "records"),
                         verdict |-> verdict]]
                 /\ anyListed' = (anyListed \/ verdict = "listed")
                 /\ k' = k + 1
                 /\ CASE res.raised = "none" ->
                           /\ pc' = "for"
                           /\ UNCHANGED <<ms, warned, exc, excAt>>
                      [] res.raised = "Timeout" ->
                           /\ IF WarnFinal(i, retries)
                              THEN warned' = warned \cup {item.id} /\ UNCHANGED ms
                              ELSE ms' = Append(ms, item) /\ UNCHANGED warned
                           /\ pc' = "for"
                           /\ UNCHANGED <<exc, excAt>>
                      [] OTHER ->
                           /\ Raise(res.raised, "check_dnsbl")
                           /\ UNCHANGED <<ms, warned>>

\* lines 260-265 after the last item of ls[0], then the test of "while ls"
\* (line 245) and, when the queue is empty, lines 266-267 and the next dest
EndRound ==
    /\ pc = "for" /\ k > Len(ls[1])
    /\ LET again == Requeue(ms, i, retries)
       IN  /\ ls' = IF again THEN Append(Tail(ls), NextBatch(ls[1], ms)) ELSE Tail(ls)
           /\ sleeps' = IF again THEN Append(sleeps, Backoff(i)) ELSE sleeps
    /\ i' = i + 1
    /\ IF ls' # <<>>
       THEN /\ ms' = <<>> /\ k' = 1
            /\ pc' = "for"
            /\ UNCHANGED d
       ELSE /\ UNCHANGED <<ms, k>>
            /\ pc' = "listed_in"
    /\ UNCHANGED <<args, order_vars, d, exc, excAt, get_addrs_vars, rdns_vars, errs, old_errs, ret,
                   hist, warned, last, anyListed, anyMismatch, resolved, listedIn>>

\* lines 266-267 and the step of "for dest in args.dests" (line 238).  The
\* variables of the finished destination are dead from here on (each is
\* assigned before its next use) and are put back to their initial values.
NextDest ==
    /\ pc = "listed_in"
    /\ listedIn' = IF old_errs < errs THEN listedIn \cup {d} ELSE listedIn
    /\ IF d < Len(dests)
       THEN d' = d + 1 /\ pc' = "get_addrs"
       ELSE d' = d /\ pc' = "return"
    /\ domains' = <<>> /\ q' = 0 /\ addrs' = <<>> /\ queries' = <<>> /\ mxAns' = NoMx
    /\ r' = 0 /\ rerrs' = 0 /\ ptrs' = <<>> /\ targets' = <<>>
    /\ old_errs' = 0 /\ ls' = <<>> /\ ms' = <<>> /\ i' = 0 /\ k' = 0
    /\ hist' = <<>> /\ warned' = {} /\ sleeps' = <<>> /\ last' = NoCall
    /\ UNCHANGED <<args, order_vars, exc, excAt, errs, ret, anyListed, anyMismatch, resolved>>

\* line 268
Return ==
    /\ pc = "return"
    /\ ret' = ExitStatus(errs)
    /\ pc' = "done"
    /\ UNCHANGED <<args, order_vars, d, exc, excAt, get_addrs_vars, rdns_vars, errs, queue_vars,
                   anyListed, anyMismatch, resolved, listedIn>>

Next ==
    \/ GetAddrsBegin
    \/ GetAddrsLookup
    \/ CheckRdnsStep
    \/ StartQueue
    \/ CheckItem
    \/ EndRound
    \/ NextDest
    \/ Return

Spec == Init /\ [][Next]_vars

\* The loop of lines 245-265 is sequential code and every lookup ends, with
\* an answer or with an exception: its next step, when there is one, is taken
SpecFair == Spec /\ WF_vars(CheckItem) /\ WF_vars(EndRound)

\* get_addrs alone, over every destination token of up to MaxTokenLen
\* characters of TokenChars
TokenChars == {"1", ".", ":", "a", "x", "\n"}
InitResolve ==
    /\ retries = 1
    /\ rev \in BOOLEAN
    /\ mx \in BOOLEAN
    /\ bls = <<>>
    /\ \E tok \in SeqsUpTo(TokenChars, MaxTokenLen) \ {<<>>} : dests = <<tok>>
    /\ InitRun
    /\ order = NoOrder /\ cmp = NoCmp
NextResolve == GetAddrsBegin \/ GetAddrsLookup
SpecResolve == InitResolve /\ [][NextResolve]_vars

\* one destination, an IPv4 literal of NameAddrs or a domain, one blacklist
InitName ==
    /\ retries \in 1..2
    /\ rev \in BOOLEAN
    /\ mx = FALSE
    /\ bls \in {<<ZoneNames[n]>> : n \in 1..Len(ZoneNames)}
    /\ \E tok \in NameAddrs \cup {DomainXY} : dests = <<tok>>
    /\ InitRun
    /\ order = NoOrder /\ cmp = NoCmp
SpecName == InitName /\ [][Next]_vars

\* one destination against up to MaxProductBls blacklists, one or two rounds
InitProduct ==
    /\ retries \in 1..2
    /\ rev \in BOOLEAN
    /\ mx \in BOOLEAN
    /\ bls \in {SubSeq(ZoneNames, 1, n) : n \in 0..MaxProductBls}
    /\ \E tok \in DestTokens : dests = <<tok>>
    /\ InitRun
    /\ order = NoOrder /\ cmp = NoCmp
SpecProduct == InitProduct /\ [][Next]_vars

\* ------------------------------------------------- one destination, reordered
\* check_rdns and the scheduler loop as functions of the answer given to each
\* lookup, for one dual-stack destination: once in the order the code uses,
\* once with its endpoints and the items of every round reordered.
OrderEndpoints == << [addr |-> AddrA, domain |-> DomainXY],
                     [addr |-> AddrAAAA, domain |-> DomainXY] >>
OrderAddrs == {OrderEndpoints[n].addr : n \in 1..Len(OrderEndpoints)}
OrderPtrs == { [out |-> "records", target |-> <<"x", ".", "Y", ".">>],
               [out |-> "records", target |-> <<"z", ".">>],
               [out |-> "NXDOMAIN", target |-> None], [out |-> "Timeout", target |-> None] }
OrderAnswers == { [a |-> "records", txt |-> "records"], [a |-> "NXDOMAIN", txt |-> "none"],
                  [a |-> "Timeout", txt |-> "none"], [a |-> "records", txt |-> "Timeout"],
                  [a |-> "records", txt |-> "NoNameservers"] }
Arrangements(S) ==
    {f \in [1..Cardinality(S) -> S] : \A m, n \in DOMAIN f : f[m] = f[n] => m = n}

\* line 243 for the endpoints eps
ItemsOf(eps) ==
    [n \in 1..(Len(eps) * Len(bls)) |->
        LET x == ((n - 1) \div Len(bls)) + 1
            y == ((n - 1) % Len(bls)) + 1
        IN  [addr |-> eps[x].addr, domain |-> eps[x].domain, bl |-> bls[y],
             name |-> QueryNames[eps[x].addr][bls[y]], id |-> <<eps[x].addr, y>>]]
OrderItemIds == OrderAddrs \X (1..Len(bls))

InitOrder ==
    /\ retries \in 0..MaxOrderRetries
    /\ rev \in BOOLEAN
    /\ mx = FALSE
    /\ bls = SubSeq(ZoneNames, 1, MaxBls)
    /\ dests = <<DomainXY>>
    /\ InitRun
    /\ LET rounds == 0..((IF retries >= 1 THEN retries ELSE 1) - 1)
       IN  \E ptr \in (IF rev THEN [OrderAddrs -> OrderPtrs]
                       ELSE [OrderAddrs -> {CHOOSE o \in OrderPtrs : o.out = "NXDOMAIN"}]) :
           \E ans \in [OrderItemIds \X rounds -> OrderAnswers] :
           \E eord \in Arrangements(1..Len(OrderEndpoints)) :
           \E ord \in [rounds -> Arrangements(OrderItemIds)] :
               order = [ptr |-> ptr, ans |-> ans, eord |-> eord, ord |-> ord]
    /\ cmp = NoCmp

\* lines 211-230 for the endpoints eps from position n on, errs being acc
RECURSIVE check_rdnsFrom(_, _, _)
check_rdnsFrom(eps, n, acc) ==
    IF n > Len(eps) THEN Returned(acc)
    ELSE LET e == eps[n]
             o == order.ptr[e.addr]
         IN  IF ~ReverseName[e.addr].ok THEN Raised("SyntaxError")
             ELSE IF o.out = "records"
             THEN check_rdnsFrom(eps, n + 1,
                                 IF PtrMismatch(e.domain, o.target) THEN acc + 1 ELSE acc)
             ELSE IF o.out \in RdnsCaught THEN Returned(NoReverseRecord(acc))
             ELSE Raised(o.out)

\* lines 247-259 for the items of batch from position n on
RECURSIVE ForItemsFrom(_, _, _, _, _)
ForItemsFrom(batch, n, round, acc, timedOut) ==
    IF n > Len(batch) THEN [raised |-> "none", errs |-> acc, ms |-> timedOut]
    ELSE LET item == batch[n]
             an == order.ans[<<item.id, round>>]
             res == check_dnsbl(item.name, an.a, an.txt)
         IN  IF res.raised = "none"
             THEN ForItemsFrom(batch, n + 1, round, Tally(acc, res), timedOut)
             ELSE IF res.raised = "Timeout"
             THEN ForItemsFrom(batch, n + 1, round, acc,
                               IF WarnFinal(round, retries) THEN timedOut
                               ELSE Append(timedOut, item))
             ELSE [raised |-> res.raised, errs |-> acc, ms |-> timedOut]

\* the items of batch in the order ord[round] gives them
Reordered(batch, round) ==
    LET ids == {batch[n].id : n \in 1..Len(batch)}
        at(id) == CHOOSE n \in 1..Len(batch) : batch[n].id = id
        kept == SelectSeq(order.ord[round], LAMBDA id : id \in ids)
    IN  [n \in 1..Len(kept) |-> batch[at(kept[n])]]

\* lines 245-265 from the round that executes batch on
RECURSIVE WhileFrom(_, _, _, _)
WhileFrom(batch, round, acc, reordered) ==
    LET out == ForItemsFrom(IF reordered THEN Reordered(batch, round) ELSE batch,
                            1, round, acc, <<>>)
    IN  IF out.raised # "none" THEN Raised(out.raised)
        ELSE IF Requeue(out.ms, round, retries)
        THEN WhileFrom(NextBatch(batch, out.ms), round + 1, out.errs, reordered)
        ELSE Returned(out.errs)

\* lines 236-268 for the one destination whose get_addrs returned OrderEndpoints
RunOrder(reordered) ==
    LET eps == IF reordered
               THEN [n \in 1..Len(OrderEndpoints) |-> OrderEndpoints[order.eord[n]]]
               ELSE OrderEndpoints
        rdns == IF rev THEN check_rdnsFrom(eps, 1, 0) ELSE Returned(0)
        listed == IF rdns.raised = "none" THEN WhileFrom(ItemsOf(eps), 0, rdns.value, reordered)
                  ELSE rdns
    IN  [completed |-> listed.raised = "none",
         rdns |-> rdns.value,
         errs |-> listed.value,
         ret |-> IF listed.raised = "none" THEN ExitStatus(listed.value) ELSE NotReturned]

RunBothOrders ==
    /\ cmp = NoCmp /\ order # NoOrder
    /\ cmp' = [given |-> RunOrder(FALSE), reordered |-> RunOrder(TRUE)]
    /\ UNCHANGED <<args, order, pc, d, exc, excAt, get_addrs_vars, rdns_vars, errs,
                   queue_vars, ret, anyListed, anyMismatch, resolved, listedIn>>

NextOrder == RunBothOrders
SpecOrder == InitOrder /\ [][NextOrder]_vars

\* ================================================================== claims
Max(a, b) == IF a >= b THEN a ELSE b
Items == DOMAIN hist
\* the work items still to be executed in the current round
Pending == IF pc = "for" THEN {ls[1][n].id : n \in k..Len(ls[1])} ELSE {}
Queued == {ms[n].id : n \in 1..Len(ms)}

\* C1 as stated: a work item is passed to check_dnsbl at most `retries` times,
\* for every accepted value of retries, 0 included (stated here for the values
\* from 0 on, below which no number of attempts is "at most retries", and for
\* runs that no exception has ended).
C1_AtMostRetriesAttempts ==
    (retries >= 0 /\ exc = "none") => \A id \in Items : hist[id].att <= retries

\* C1 as amended: a work item is passed to check_dnsbl at most max(1, retries)
\* times: round 0 always runs, whatever retries is.
C1_AtMostMaxOneRetriesAttempts ==
    \A id \in Items : hist[id].att <= Max(1, retries)

C1_Witness ==
    \E id \in Items : retries >= 2 /\ hist[id].att = retries /\ hist[id].tmo = retries

\* C2: when run() has returned, the value is 0 exactly when no check_dnsbl call
\* gave the verdict listed and no check_rdns call returned a mismatch; else 1.
C2_ExitStatusIffNothingFound ==
    pc = "done" =>
        /\ ret \in {0, 1}
        /\ (ret = 0) <=> (~anyListed /\ ~anyMismatch)

C2_Witness ==
    pc = "done" /\ Len(dests) = 2 /\ ret = 1 /\ anyMismatch /\ ~anyListed

\* C3: a destination for which get_addrs finds no address (ValueError) is the
\* only one aborted: the run goes on with the later destinations and is not
\* ended by that exception.
C3_NoAddressAbortsOnlyThatDest ==
    (exc = "ValueError" /\ d < Len(dests) /\ retries >= 1) => pc # "crashed"

\* C4: when a destination is finished, every work item whose A lookup was
\* answered in some round has added exactly 1 to errs, whatever the TXT
\* lookups ended with.
C4_AnsweredAddsExactlyOne ==
    (pc = "listed_in" /\ retries >= 1) =>
        \A id \in Items : hist[id].aok => hist[id].add = 1

\* C5: for retries >= 1, a work item that times out in round retries - 1 (its
\* attempt number retries) is reported with log.warn and is not attempted
\* again, and no item is reported with log.warn after fewer attempts.
C5_LastRoundTimeoutWarned ==
    retries >= 1 =>
        \A id \in Items :
            /\ hist[id].att <= retries
            /\ (hist[id].att = retries /\ hist[id].verdict = "timed-out") => id \in warned
            /\ id \in warned => hist[id].att = retries

\* C6: a work item that timed out in every round it was attempted has added
\* nothing to errs; a destination all of whose queries ended as timeouts or
\* not-listed leaves errs at old_errs; and a run with no listed verdict and no
\* reverse-DNS mismatch returns 0.
C6_TimeoutsNeverCount ==
    /\ \A id \in Items : hist[id].tmo = hist[id].att => hist[id].add = 0
    /\ (pc \in {"for", "listed_in"}
          /\ \A id \in Items : hist[id].verdict \in {"none", "timed-out", "not-listed"})
       => errs = old_errs
    /\ (pc = "done" /\ ~anyListed /\ ~anyMismatch) => ret = 0

C6_Witness ==
    /\ pc = "listed_in" /\ retries >= 2 /\ errs = 0
    /\ \E id \in Items : hist[id].att = retries /\ hist[id].tmo = retries

\* C7: whatever a work item's A or TXT lookup ends with, run() is not ended
\* by it while other work items of the round are still to be executed (stated
\* here for the outcomes records, NoAnswer, NXDOMAIN, Timeout, NoNameservers).
C7_ItemFailureNeverAborts ==
    LET known == Outcomes \ {"OtherFailure"}
    IN  (/\ retries >= 1
         /\ last.a \in known
         /\ last.txt \in known \cup {"none"}
         /\ Len(ls) > 0 /\ k <= Len(ls[1]))
        => pc # "crashed"

\* C8: whatever the PTR lookups of a destination end with (records, NoAnswer,
\* NXDOMAIN, Timeout, NoNameservers), check_rdns does not end the run: the
\* queue of the destination is still built and run.
C8_RdnsNeverBlocksBlacklists ==
    (/\ retries >= 1
     /\ Len(ptrs) > 0
     /\ ptrs[Len(ptrs)] \in {"records", "NoAnswer", "NXDOMAIN", "Timeout", "NoNameservers"})
    => ~(pc = "crashed" /\ excAt = "check_rdns" /\ exc = ptrs[Len(ptrs)])

\* C9: only a timeout puts a work item into the next round: every item in ms,
\* and every item of a round after round 0 that is still to be executed, timed
\* out in its latest attempt; a blacklist query that ends with NXDOMAIN,
\* NoAnswer or NoNameservers gives the verdict not-listed, adds 0 to errs, and
\* an item with the verdict not-listed is in no later batch.
C9_OnlyTimeoutRequeues ==
    /\ \A id \in Queued : hist[id].verdict = "timed-out"
    /\ \A id \in Pending : hist[id].verdict = (IF i = 0 THEN "none" ELSE "timed-out")
    /\ last.a \in {"NXDOMAIN", "NoAnswer", "NoNameservers"} =>
          /\ last.result = "not-listed"
          /\ pc # "crashed"
          /\ hist[last.id].verdict = "not-listed"
    /\ \A id \in Items : hist[id].verdict = "not-listed" =>
          /\ hist[id].add = 0
          /\ id \notin Queued
          /\ id \notin Pending

C9_Witness ==
    /\ last.a = "NoNameservers"
    /\ hist[last.id].att = 2
    /\ Queued # {}

\* C10: for a destination token made only of digits and dots, or only of hex
\* digits and colons, get_addrs returns the one endpoint (token, None) and has
\* issued no MX, A or AAAA query, whatever the mx flag.
LiteralShape(tok) ==
    /\ Len(tok) > 0
    /\ \/ \A n \in 1..Len(tok) : tok[n] \in Digits \cup {"."}
       \/ \A n \in 1..Len(tok) : tok[n] \in HexChars \cup {":"}
C10_LiteralOneEndpointNoQuery ==
    LiteralShape(dest) =>
        /\ pc # "get_addrs" =>
              /\ pc \in {"check_rdns", "queue"}
              /\ addrs = << [addr |-> dest, domain |-> None] >>
              /\ queries = <<>>

C10_Witness ==
    /\ pc = "queue" /\ mx /\ LiteralShape(dest) /\ Len(dest) = 2
    /\ dest[1] = ":" /\ addrs = << [addr |-> dest, domain |-> None] >>

Range(s) == {s[n] : n \in 1..Len(s)}
Origins == {addrs[n].domain : n \in 1..Len(addrs)}

\* C11: for a destination that is no literal, while and after get_addrs
\* resolves it: with mx set and an MX answer, every endpoint's origin is one of
\* the answer's exchange targets; with mx set and MX NoAnswer every origin is
\* the destination itself; with mx unset no MX lookup is issued and every
\* origin is the destination itself.
C11_OriginsFollowMx ==
    (~LiteralShape(dest) /\ pc \in {"lookup", "check_rdns", "queue"}) =>
        /\ (mx /\ mxAns.out = "records") => Origins \subseteq Range(mxAns.exch)
        /\ (mx /\ mxAns.out = "NoAnswer") => Origins \subseteq {dest}
        /\ ~mx => (mxAns = NoMx /\ "mx" \notin Range(queries) /\ Origins \subseteq {dest})
        /\ mx => Range(queries) \cap {"mx"} # {}

C11_Witness ==
    /\ pc = "queue" /\ mx /\ mxAns.out = "records"
    /\ Len(addrs) = 2 /\ Origins = Range(mxAns.exch) /\ dest \notin Origins

\* C12: with the same answer given to each lookup, a destination whose
\* endpoints and whose items of each round are processed in another order
\* than the code's, and whose run completes in both orders, adds something to
\* the error tally in both orders or in neither, and the run returns the same
\* exit status.
C12_OrderDoesNotDecide ==
    (cmp # NoCmp /\ cmp.given.completed /\ cmp.reordered.completed) =>
        /\ (cmp.given.errs > 0) = (cmp.reordered.errs > 0)
        /\ cmp.given.ret = cmp.reordered.ret

C12_Witness ==
    /\ cmp # NoCmp /\ cmp.given.completed /\ cmp.reordered.completed
    /\ order.eord # <<1, 2>>
    /\ cmp.given.rdns # cmp.reordered.rdns
    /\ retries = 2 /\ order.ord[1] # order.ord[0]
    /\ cmp.given.errs > cmp.given.rdns

Batch == IF pc = "for" THEN {ls[1][n].id : n \in 1..Len(ls[1])} ELSE {}

\* C13: in every round after round 0 the batch holds each of its items once
\* and holds exactly the items that timed out in the round before (the items
\* that timed out in every round so far); each item not in it had fewer
\* attempts than rounds have started, each item in it exactly one attempt per
\* round it was in; an item whose latest result is listed or not-listed is
\* neither waiting in this round nor queued for the next.
C13_LaterRoundsAreTheTimedOut ==
    /\ (pc = "for" /\ i >= 1) =>
          /\ \A m, n \in 1..Len(ls[1]) : ls[1][m].id = ls[1][n].id => m = n
          /\ Batch = {id \in Items : hist[id].tmo >= i}
          /\ \A id \in Items :
                /\ id \in Pending => (hist[id].att = i /\ hist[id].tmo = i)
                /\ id \in Batch \ Pending => hist[id].att = i + 1
                /\ id \notin Batch => hist[id].att <= i
    /\ \A id \in Items :
          hist[id].verdict \in {"listed", "not-listed"} => id \notin Pending \cup Queued

C13_Witness ==
    /\ pc = "for" /\ i = 1 /\ k > Len(ls[1])
    /\ Cardinality(Items) = 2 /\ Cardinality(Batch) = 1
    /\ \E id \in Items \ Batch : hist[id].verdict = "listed" /\ hist[id].att = 1

\* C14: the step that ends round i appends a sleep exactly when some item of
\* the round timed out and i + 1 < retries, and the sleep appended is
\* 23 + 23*i; no other step of a destination's loop sleeps.  With retries = 3,
\* an item that timed out twice and then was found not listed has had 3
\* attempts, the sleeps were 23 then 46, and it added no error.
C14_SleepIffTimeoutAndBudget ==
    /\ [][ /\ (pc = "for" /\ i' = i + 1) =>
               IF (\E id \in Batch : hist[id].verdict = "timed-out") /\ i + 1 < retries
               THEN sleeps' = Append(sleeps, 23 + 23 * i)
               ELSE sleeps' = sleeps
           /\ ~(pc = "for" /\ i' = i + 1) => (sleeps' = sleeps \/ sleeps' = <<>>)
         ]_vars
    /\ [](\A id \in Items :
            (retries = 3 /\ hist[id].tmo = 2 /\ hist[id].verdict = "not-listed") =>
                (hist[id].att = 3 /\ sleeps = <<23, 46>> /\ hist[id].add = 0))

C14_Witness ==
    /\ pc = "listed_in" /\ retries = 3 /\ sleeps = <<23, 46>> /\ errs = 0
    /\ \E id \in Items : hist[id].att = 3 /\ hist[id].tmo = 2
                         /\ hist[id].verdict = "not-listed"

\* C15: a PTR lookup of check_rdns that ends with NXDOMAIN or NoAnswer ends
\* the pass with the mismatches counted before it plus one, which is what the
\* tally receives; such an answer is therefore never followed by another PTR
\* lookup of the same destination, and no PTR lookup is issued outside
\* check_rdns.
C15_MissingPtrEndsThePass ==
    /\ [][ /\ (pc = "check_rdns" /\ Len(ptrs') = Len(ptrs) + 1
               /\ ptrs'[Len(ptrs')] \in {"NXDOMAIN", "NoAnswer"}) =>
                  (pc' = "queue" /\ rerrs' = rerrs + 1 /\ errs' = errs + rerrs + 1
                   /\ r' <= Len(addrs))
           /\ pc # "check_rdns" => (ptrs' = ptrs \/ ptrs' = <<>>)
         ]_vars
    /\ [](\A n \in 1..(Len(ptrs) - 1) : ptrs[n] \notin {"NXDOMAIN", "NoAnswer"})

C15_Witness ==
    /\ pc = "queue" /\ Len(addrs) = 2
    /\ ptrs = <<"records", "NXDOMAIN">> /\ rerrs = 2 /\ errs = 2

\* a name without its trailing root label, in lower case
Rootless(name) ==
    LET s == lower(name)
    IN  IF Len(s) > 0 /\ s[Len(s)] = "." THEN SubSeq(s, 1, Len(s) - 1) ELSE s

\* C16: a PTR lookup of check_rdns that returns a target adds one mismatch
\* if the endpoint has an origin and origin and target differ once case and a
\* trailing root label are set aside, and adds none otherwise (so none when
\* the origin is absent); either way the pass goes on to the next endpoint,
\* or returns its count after the last one.
C16_MismatchIffOriginDiffers ==
    [][ (pc = "check_rdns" /\ ptrs' = Append(ptrs, "records")) =>
          LET e == addrs[r + 1]
              target == targets'[Len(targets')]
              differs == e.domain # None /\ Rootless(e.domain) # Rootless(target)
          IN  /\ Len(targets') = Len(targets) + 1
              /\ rerrs' = IF differs THEN rerrs + 1 ELSE rerrs
              /\ e.domain = None => rerrs' = rerrs
              /\ r' = r + 1
              /\ pc' = IF r + 1 < Len(addrs) THEN "check_rdns" ELSE "queue"
      ]_vars

C16_Witness ==
    /\ pc = "queue" /\ Len(addrs) = 2 /\ ptrs = <<"records", "records">>
    /\ addrs[1].domain = DomainXY
    /\ targets = << <<"z", ".">>, <<"x", ".", "Y", ".">> >>
    /\ rerrs = 1

\* C17: the batch of round 0 holds |endpoints| * |blacklists| items, exactly
\* one for each pair of an endpoint and a blacklist; the round executes them
\* one after the other, each once.  With no blacklist the batch is empty, no
\* check_dnsbl call is made and the loop is over after that one round,
\* without a sleep.
C17_RoundZeroIsTheCrossProduct ==
    /\ (pc = "for" /\ i = 0) =>
          LET b == ls[1]
          IN  /\ Len(b) = Len(addrs) * Len(bls)
              /\ \A x \in 1..Len(addrs), y \in 1..Len(bls) :
                    Cardinality({n \in 1..Len(b) :
                        /\ b[n].addr = addrs[x].addr /\ b[n].domain = addrs[x].domain
                        /\ b[n].bl = bls[y] /\ b[n].id = <<x, y>>}) = 1
              /\ \A n \in 1..Len(b) : hist[b[n].id].att = IF n < k THEN 1 ELSE 0
    /\ (bls = <<>> /\ pc \in {"for", "listed_in"}) =>
          /\ Items = {} /\ last = NoCall /\ sleeps = <<>>
          /\ pc = "for" => (i = 0 /\ ls = << <<>> >>)
          /\ pc = "listed_in" => (i = 1 /\ ls = <<>>)

C17_Witness ==
    /\ pc = "for" /\ i = 0 /\ k > Len(ls[1])
    /\ Len(addrs) = 2 /\ Len(bls) = 2 /\ Len(ls[1]) = 4
    /\ \A id \in Items : hist[id].att = 1

\* the four decimal parts of a dotted quad
Quad(text) == Split(text, ".")
IsQuad(text) ==
    /\ Len(Quad(text)) = 4
    /\ \A n \in 1..4 : Len(Quad(text)[n]) > 0 /\ \A m \in 1..Len(Quad(text)[n]) :
                            Quad(text)[n][m] \in Digits

\* C18: the name check_dnsbl queries for an IPv4 address a.b.c.d in zone z is
\* d.c.b.a.z, without the in-addr.arpa suffix of the reverse name; a later
\* call for the same work item queries the same name.
C18_QueryNameIsReversedQuadThenZone ==
    /\ [](last # NoCall /\ last.a # "none" /\ IsQuad(addrs[last.id[1]].addr) =>
            last.name = Join(Reverse(Quad(addrs[last.id[1]].addr)), ".")
                        \o <<".">> \o bls[last.id[2]])
    /\ [][(last # NoCall /\ last' # NoCall /\ last'.id = last.id) =>
            last'.name = last.name]_vars

C18_Witness ==
    /\ last # NoCall /\ last.a = "records" /\ hist[last.id].att = 2
    /\ addrs[last.id[1]].addr = <<"1", "0", ".", "0", ".", "9", ".", "2", "5", "5">>
    /\ bls = << <<"z", "2">> >>
    /\ last.name = <<"2", "5", "5", ".", "9", ".", "0", ".", "1", "0", ".", "z", "2">>

\* C19 as stated: when round i >= 1 starts, the sleep just before it lasted
\* 23 + 23*i.
C19_SleepBeforeRoundUsesItsIndex ==
    (pc = "for" /\ i >= 1) =>
        (Len(sleeps) >= 1 /\ sleeps[Len(sleeps)] = 23 + 23 * i)

\* C19, amended: when round i >= 1 starts there have been exactly i sleeps
\* for this destination and the one just before round i lasted
\* 23 + 23*(i - 1): the delay is computed from the index of the round that
\* has just ended.
C19_SleepBeforeRoundUsesEndedIndex ==
    (pc = "for" /\ i >= 1) =>
        (Len(sleeps) = i /\ sleeps[i] = 23 + 23 * (i - 1))

C19_Witness ==
    pc = "for" /\ i = 2 /\ k = 1 /\ sleeps = <<23, 46>>

\* C20: for every retries, negative ones included, and whatever the lookups
\* answer (an item may time out in every round): the queue never holds more
\* than one batch, the round being executed has an index below
\* max(1, retries), the loop is left after at least one and at most
\* max(1, retries) rounds, and a destination's loop, once entered, is left.
C20_LoopEndsWithinMaxOneRetriesRounds ==
    /\ [](Len(ls) <= 1)
    /\ [](pc = "for" => (Len(ls) = 1 /\ i < Max(1, retries)))
    /\ [](pc = "listed_in" => (ls = <<>> /\ 1 <= i /\ i <= Max(1, retries)))
    /\ (pc = "for") ~> (pc # "for")

C20_Witness ==
    /\ pc = "listed_in" /\ retries = MaxRetries /\ i = MaxRetries
    /\ Cardinality(Items) = 2
    /\ \A id \in Items : hist[id].tmo = MaxRetries /\ hist[id].verdict = "timed-out"

Listed == {id \in Items : hist[id].verdict = "listed"}

\* C21: no step of a run lowers the error tally; over all rounds a work item
\* adds 0 or 1 to it; while a destination's blacklists are checked and when
\* its loop has ended (or was aborted inside check_dnsbl), errs - old_errs is
\* the number of its work items whose verdict is listed, which is at most
\* |endpoints| * |blacklist entries|.
C21_TallyGrowsByTheListedItems ==
    /\ [][errs' >= errs]_vars
    /\ [](\A id \in Items : hist[id].add \in {0, 1})
    /\ []((pc \in {"for", "listed_in"} \/ (pc = "crashed" /\ excAt = "check_dnsbl")) =>
            /\ errs - old_errs = Cardinality(Listed)
            /\ errs - old_errs <= Len(addrs) * Len(bls)
            /\ \A id \in Items : (hist[id].add = 1) = (id \in Listed))

C21_Witness ==
    /\ pc = "listed_in" /\ Cardinality(Items) = 2 /\ old_errs >= 1
    /\ errs - old_errs = 1 /\ Cardinality(Listed) = 1
    /\ \E id \in Items : hist[id].verdict = "not-listed" /\ hist[id].att = 2
====
